---- MODULE Spec2Model ----
(***************************************************************************)
(* Model of debug_database.py: the TaskMaster database debugger.          *)
(*                                                                         *)
(* main() locates the SQLite file (find_database), and, when one is        *)
(* found, examine_database() opens it, walks the schema, lists Projects    *)
(* and TaskSpecs, closes the connection; main() then prints a footer.      *)
(*                                                                         *)
(* Text is modelled as sequences of one-character strings so that padding  *)
(* and slicing are computed as Python computes them.  A SQLite value is a  *)
(* tagged record (integer, text or NULL).  An exception that nothing       *)
(* catches ends the process: pc = "crashed" and exc names its class.       *)
(***************************************************************************)
EXTENDS Integers, Sequences, FiniteSets, TLC

VARIABLES env, fs, db, fs0, db0, pc, db_path, conn, statements, out, exc, phases

vars == <<env, fs, db, fs0, db0, pc, db_path, conn, statements, out, exc, phases>>

(***************************************************************************)
(* Bounds of the model.                                                    *)
(***************************************************************************)
MaxProjects == 1
MaxTasks == 2

(***************************************************************************)
(* Field widths and slice length of the format strings.                    *)
(***************************************************************************)
IdWidth == 2
NameWidth == 20
TaskCountWidth == 9
NextNumberWidth == 10
ProjIdWidth == 6
NumWidth == 3
TitleWidth == 20
TypeWidth == 7
StatusWidth == 6
CreatedLen == 10

(***************************************************************************)
(* Text helpers.                                                           *)
(***************************************************************************)
\* c * n: n copies of c, none when n <= 0
Rep(c, n) == IF n <= 0 THEN <<>> ELSE [i \in 1..n |-> c]

Spaces(n) == Rep(" ", n)

Min(a, b) == IF a < b THEN a ELSE b

DigitChar(d) == <<"0", "1", "2", "3", "4", "5", "6", "7", "8", "9">>[d + 1]

RECURSIVE Digits(_)
\* str(n) for a non-negative integer n
Digits(n) == IF n < 10 THEN <<DigitChar(n)>>
             ELSE Digits(n \div 10) \o <<DigitChar(n % 10)>>

(***************************************************************************)
(* SQLite values as Python receives them: int, str or None.                *)
(***************************************************************************)
IntVal(n) == [t |-> "int", i |-> n, s |-> <<>>]
StrVal(s) == [t |-> "str", i |-> 0, s |-> s]
NullVal == [t |-> "null", i |-> 0, s |-> <<>>]

(***************************************************************************)
(* Python formatting.  Each returns [ok, s]: ok = FALSE stands for the     *)
(* TypeError the expression raises.                                        *)
(***************************************************************************)
Ok(s) == [ok |-> TRUE, s |-> s]
TypeError == [ok |-> FALSE, s |-> <<>>]

\* A faulty variant of FormatWidth that cuts text down to the width.
FormatWidthTruncating(v, w) ==
    CASE v.t = "str" -> Ok(SubSeq(v.s, 1, Min(w, Len(v.s))) \o Spaces(w - Min(w, Len(v.s))))
      [] v.t = "int" -> Ok(Spaces(w - Len(Digits(v.i))) \o Digits(v.i))
      [] OTHER -> TypeError

\* format(v, "<w>"): a minimum width; text is padded on the right, a
\* number on the left, nothing is ever cut; None has no such format.
FormatWidth(v, w) ==
    CASE v.t = "str" -> Ok(v.s \o Spaces(w - Len(v.s)))
      [] v.t = "int" -> Ok(Spaces(w - Len(Digits(v.i))) \o Digits(v.i))
      [] OTHER -> TypeError

\* format(v, ""), i.e. str(v)
FormatPlain(v) ==
    CASE v.t = "str" -> Ok(v.s)
      [] v.t = "int" -> Ok(Digits(v.i))
      [] OTHER -> Ok(<<"N", "o", "n", "e">>)

\* v[:10]: only text can be sliced
SliceCreated(v) ==
    IF v.t = "str" THEN Ok(SubSeq(v.s, 1, Min(CreatedLen, Len(v.s)))) ELSE TypeError

(***************************************************************************)
(* The environment and the filesystem.  A path is its sequence of          *)
(* components.  LOCALAPPDATA is unset, the empty string, or a directory.   *)
(***************************************************************************)
Unset == [set |-> FALSE, val |-> <<>>]
EnvValues == {Unset, [set |-> TRUE, val |-> <<>>], [set |-> TRUE, val |-> <<"AppData">>]}

\* Path(local_app_data) / "TaskMaster" / "taskmaster.db"
AppDataCandidate(e) == e.val \o <<"TaskMaster", "taskmaster.db">>
CwdCandidate == <<"taskmaster.db">>

Paths == {AppDataCandidate(e) : e \in EnvValues} \cup {CwdCandidate}

FileKinds == {"absent", "dir", "malformed", "valid"}

\* Path.exists(): true of files and of directories
exists(f, p) == f[p] # "absent"

None == <<>>

\* A faulty variant of find_database that tries the current directory first.
find_database_cwd_first(e, f) ==
    IF exists(f, CwdCandidate) THEN CwdCandidate
    ELSE IF e.set /\ e.val # <<>> /\ exists(f, AppDataCandidate(e)) THEN AppDataCandidate(e)
    ELSE None

\* A faulty variant of find_database that falls back to the default name.
find_database_default(e, f) ==
    IF e.set /\ e.val # <<>> /\ exists(f, AppDataCandidate(e)) THEN AppDataCandidate(e)
    ELSE CwdCandidate

find_database(e, f) ==
    IF e.set /\ e.val # <<>> /\ exists(f, AppDataCandidate(e)) THEN AppDataCandidate(e)
    ELSE IF exists(f, CwdCandidate) THEN CwdCandidate
    ELSE None

RECURSIVE PathStr(_)
\* str(path): the components joined by "/"
PathStr(p) == IF p = <<>> THEN ""
              ELSE IF Len(p) = 1 THEN p[1]
              ELSE p[1] \o "/" \o PathStr(Tail(p))

(***************************************************************************)
(* The database.  A database is the sequence of its tables in catalog      *)
(* order; a table has a name, columns (name, declared type) and rows; a    *)
(* row is the tuple of its values in column order.                         *)
(***************************************************************************)
Table(name, cols, rows) == [name |-> name, cols |-> cols, rows |-> rows]

ProjectsCols == << <<"Id", "INTEGER">>, <<"Name", "TEXT">>, <<"TaskCount", "INTEGER">>,
                   <<"NextNumber", "INTEGER">>, <<"LastUpdated", "TEXT">> >>

\* the Projects table of a database whose migration did not add NextNumber
ProjectsColsOld == << <<"Id", "INTEGER">>, <<"Name", "TEXT">>, <<"TaskCount", "INTEGER">>,
                      <<"LastUpdated", "TEXT">> >>

TaskSpecsCols == << <<"Id", "INTEGER">>, <<"ProjectId", "INTEGER">>, <<"Number", "INTEGER">>,
                    <<"Title", "TEXT">>, <<"Type", "TEXT">>, <<"Status", "TEXT">>,
                    <<"Created", "TEXT">> >>

TaskSpecsColsOld == << <<"Id", "INTEGER">>, <<"ProjectId", "INTEGER">>, <<"Number", "INTEGER">>,
                       <<"Title", "TEXT">>, <<"Type", "TEXT">>, <<"Created", "TEXT">> >>

Demo == <<"D", "e", "m", "o">>
FixBug == <<"F", "i", "x", " ", "b", "u", "g">>
Bug == <<"b", "u", "g">>
Open == <<"o", "p", "e", "n">>
Timestamp == <<"2", "0", "2", "4", "-", "0", "1", "-", "0", "1", "T",
               "0", "0", ":", "0", "0", ":", "0", "0">>
Year == <<"2", "0", "2", "4">>

ProjectRow(name) ==
    <<IntVal(1), name, IntVal(3), IntVal(4), StrVal(Timestamp)>>

\* rows the application may have written: a short name, a name of exactly
\* the column width, a longer one, and a NULL name
ProjectRows == {ProjectRow(StrVal(Demo)), ProjectRow(StrVal(Rep("e", NameWidth))),
                ProjectRow(StrVal(Rep("n", NameWidth + 1))), ProjectRow(NullVal)}

TaskRows ==
    { <<IntVal(1), IntVal(1), IntVal(1), StrVal(FixBug), StrVal(Bug), StrVal(Open),
        StrVal(Timestamp)>>,
      <<IntVal(2), IntVal(2), IntVal(1), StrVal(Rep("t", TitleWidth + 1)),
        StrVal(Rep("y", TypeWidth)), StrVal(Rep("s", StatusWidth)), StrVal(Year)>>,
      <<IntVal(3), IntVal(1), IntVal(2), StrVal(FixBug), StrVal(Rep("y", TypeWidth + 1)),
        StrVal(Rep("s", StatusWidth + 1)), StrVal(Timestamp)>>,
      <<IntVal(4), IntVal(2), IntVal(2), StrVal(FixBug), StrVal(Bug), StrVal(Open),
        NullVal>> }

SeqsUpTo(S, n) == UNION {[1..k -> S] : k \in 0..n}

\* a table whose name is no SQL identifier
OddTable == Table("Order Items", << <<"a", "INTEGER">> >>, <<>>)

ProjectsStates ==
    {<<>>, <<Table("Projects", ProjectsColsOld, <<>>)>>}
    \cup {<<Table("Projects", ProjectsCols, rows)>> : rows \in SeqsUpTo(ProjectRows, MaxProjects)}

TaskSpecsStates ==
    {<<>>, <<Table("TaskSpecs", TaskSpecsColsOld, <<>>)>>}
    \cup {<<Table("TaskSpecs", TaskSpecsCols, rows)>> : rows \in SeqsUpTo(TaskRows, MaxTasks)}

Databases ==
    {p \o t \o o : p \in ProjectsStates, t \in TaskSpecsStates, o \in {<<>>, <<OddTable>>}}

ColNames(table) == {table.cols[i][1] : i \in 1..Len(table.cols)}

ColIndex(table, c) == CHOOSE i \in 1..Len(table.cols) : table.cols[i][1] = c

HasTable(d, name) == \E i \in 1..Len(d) : d[i].name = name

TableOf(d, name) == d[CHOOSE i \in 1..Len(d) : d[i].name = name]

(***************************************************************************)
(* Statements.  A statement is its verb and the rest of its text.          *)
(***************************************************************************)
Statement(verb, text) == [verb |-> verb, text |-> text]

\* cursor.execute("SELECT name FROM sqlite_master WHERE type='table'")
SchemaQuery == Statement("SELECT", "name FROM sqlite_master WHERE type='table'")

\* cursor.execute(f"PRAGMA table_info({table_name})")
PragmaQuery(table_name) == Statement("PRAGMA table_info", table_name)

ProjectsProjection == <<"Id", "Name", "TaskCount", "NextNumber", "LastUpdated">>
TaskSpecsProjection == <<"Id", "ProjectId", "Number", "Title", "Type", "Status", "Created">>

\* A faulty variant of ProjectsQuery that writes.
ProjectsDelete ==
    Statement("DELETE", "FROM Projects")

ProjectsQuery ==
    Statement("SELECT", "Id, Name, TaskCount, NextNumber, LastUpdated FROM Projects")

TaskSpecsQuery ==
    Statement("SELECT", "Id, ProjectId, Number, Title, Type, Status, Created FROM TaskSpecs ORDER BY ProjectId, Number")

\* what executing a statement does to the database: SELECT and PRAGMA
\* table_info read; DELETE, the one writing verb modelled, empties every table
Effect(stmt, d) ==
    IF stmt.verb \in {"SELECT", "PRAGMA table_info"} THEN d
    ELSE [i \in 1..Len(d) |-> [d[i] EXCEPT !.rows = <<>>]]

\* PRAGMA table_info(<name>) is a syntax error unless <name> is an identifier
IsIdentifier(name) == name # "Order Items"

\* the first projected column the table lacks
MissingCol(table, projection) ==
    projection[CHOOSE i \in 1..Len(projection) :
                  /\ projection[i] \notin ColNames(table)
                  /\ \A j \in 1..(i - 1) : projection[j] \in ColNames(table)]

\* SELECT <projection> FROM <name>: the rows, or the OperationalError raised
Select(d, name, projection) ==
    IF ~HasTable(d, name)
    THEN [ok |-> FALSE, msg |-> "no such table: " \o name, rows |-> <<>>]
    ELSE LET table == TableOf(d, name) IN
         IF \E i \in 1..Len(projection) : projection[i] \notin ColNames(table)
         THEN [ok |-> FALSE, msg |-> "no such column: " \o MissingCol(table, projection),
               rows |-> <<>>]
         ELSE [ok |-> TRUE, msg |-> "",
               rows |-> [r \in 1..Len(table.rows) |->
                           [c \in 1..Len(projection) |->
                              table.rows[r][ColIndex(table, projection[c])]]]]

\* (ProjectId, Number) of a fetched TaskSpecs row precedes or equals
KeyLeq(a, b) == \/ a[2].i < b[2].i
                \/ a[2].i = b[2].i /\ a[3].i <= b[3].i

IsSorted(rows) == \A i \in 1..(Len(rows) - 1) : KeyLeq(rows[i], rows[i + 1])

Perms(n) == {f \in [1..n -> 1..n] : \A i, j \in 1..n : f[i] = f[j] => i = j}

\* A faulty variant of OrderBy that returns the rows in table order.
OrderByNothing(rows) == {rows}

\* ORDER BY ProjectId, Number: every ordering of the rows that is sorted
\* by the key (SQL leaves the order of equal keys open)
OrderBy(rows) ==
    {s \in {[i \in 1..Len(rows) |-> rows[f[i]]] : f \in Perms(Len(rows))} : IsSorted(s)}

(***************************************************************************)
(* Output.  A printed line is a literal text, or a table line made of      *)
(* fields that " | " separates.                                            *)
(***************************************************************************)
Line(kind, text) == [kind |-> kind, text |-> text, fields |-> <<>>]
Fields(kind, fields) == [kind |-> kind, text |-> "", fields |-> fields]

Chars_ID == <<"I", "D">>
Chars_Name == <<"N", "a", "m", "e">>
Chars_TaskCount == <<"T", "a", "s", "k", "C", "o", "u", "n", "t">>
Chars_NextNumber == <<"N", "e", "x", "t", "N", "u", "m", "b", "e", "r">>
Chars_LastUpdated == <<"L", "a", "s", "t", "U", "p", "d", "a", "t", "e", "d">>
Chars_ProjID == <<"P", "r", "o", "j", "I", "D">>
Chars_Num == <<"N", "u", "m">>
Chars_Title == <<"T", "i", "t", "l", "e">>
Chars_Type == <<"T", "y", "p", "e">>
Chars_Status == <<"S", "t", "a", "t", "u", "s">>
Chars_Created == <<"C", "r", "e", "a", "t", "e", "d">>

\* "  ID | Name                 | TaskCount | NextNumber | LastUpdated"
ProjectsHeader ==
    Fields("projects_header",
           <<Chars_ID, Chars_Name \o Spaces(NameWidth - Len(Chars_Name)), Chars_TaskCount,
             Chars_NextNumber, Chars_LastUpdated>>)

\* "  ID | ProjID | Num | Title                | Type    | Status | Created"
TaskSpecsHeader ==
    Fields("tasks_header",
           <<Chars_ID, Chars_ProjID, Chars_Num,
             Chars_Title \o Spaces(TitleWidth - Len(Chars_Title)),
             Chars_Type \o Spaces(TypeWidth - Len(Chars_Type)), Chars_Status, Chars_Created>>)

AllOk(f) == \A i \in 1..Len(f) : f[i].ok

FieldsOf(f) == [i \in 1..Len(f) |-> f[i].s]

\* f"  {project[0]:2} | {project[1]:20} | {project[2]:9} | {project[3]:10} | {project[4]}"
FormatProject(project) ==
    LET f == <<FormatWidth(project[1], IdWidth), FormatWidth(project[2], NameWidth),
               FormatWidth(project[3], TaskCountWidth),
               FormatWidth(project[4], NextNumberWidth), FormatPlain(project[5])>>
    IN [ok |-> AllOk(f), line |-> Fields("project_row", FieldsOf(f))]

\* f"  {task[0]:2} | {task[1]:6} | {task[2]:3} | {task[3]:20} | {task[4]:7} | {task[5]:6} | {task[6][:10]}"
FormatTask(task) ==
    LET f == <<FormatWidth(task[1], IdWidth), FormatWidth(task[2], ProjIdWidth),
               FormatWidth(task[3], NumWidth), FormatWidth(task[4], TitleWidth),
               FormatWidth(task[5], TypeWidth), FormatWidth(task[6], StatusWidth),
               SliceCreated(task[7])>>
    IN [ok |-> AllOk(f), line |-> Fields("task_row", FieldsOf(f))]

\* the rows a "for ...: print(...)" loop prints over formatted rows: all of
\* them, or those before the first one whose formatting raises
Completes(formatted) == \A i \in 1..Len(formatted) : formatted[i].ok

Printed(formatted) ==
    LET good == {n \in 0..Len(formatted) : \A i \in 1..n : formatted[i].ok}
        n == CHOOSE m \in good : \A k \in good : k <= m
    IN [i \in 1..n |-> formatted[i].line]

(***************************************************************************)
(* The state after the interpreter has loaded the script: nothing printed, *)
(* nothing opened.  db is the content of the database file the run         *)
(* resolves to (no tables when there is none, or when it is no database).  *)
(***************************************************************************)
Init ==
    /\ env \in EnvValues
    /\ fs \in [Paths -> FileKinds]
    /\ db \in IF find_database(env, fs) # None /\ fs[find_database(env, fs)] = "valid"
              THEN Databases ELSE {<<>>}
    /\ fs0 = fs
    /\ db0 = db
    /\ pc = "start"
    /\ db_path = None
    /\ conn = "none"
    /\ statements = <<>>
    /\ out = <<>>
    /\ exc = "none"
    /\ phases = <<"NOT_STARTED">>

\* an exception nothing catches ends the process
Raise(class) ==
    /\ pc' = "crashed"
    /\ exc' = class

\* A faulty variant of Locate without the test "if not db_path".
LocateUnchecked ==
    /\ pc = "start"
    /\ db_path' = find_database(env, fs)
    /\ out' = out \o <<Line("banner", "TaskMaster Database Debugger"), Line("rule", "=")>>
    /\ pc' = "located"
    /\ phases' = Append(phases, "LOCATED")
    /\ UNCHANGED <<env, fs, db, fs0, db0, conn, statements, exc>>

\* main, up to the test of what find_database returned
Locate ==
    /\ pc = "start"
    /\ db_path' = find_database(env, fs)
    /\ out' = out \o <<Line("banner", "TaskMaster Database Debugger"), Line("rule", "=")>>
    /\ pc' = IF db_path' = None THEN "not_found" ELSE "located"
    /\ phases' = Append(phases, IF db_path' = None THEN "NOT_FOUND" ELSE "LOCATED")
    /\ UNCHANGED <<env, fs, db, fs0, db0, conn, statements, exc>>

\* main, the branch "if not db_path"
NotFound ==
    /\ pc = "not_found"
    /\ out' = out \o
         <<Line("not_found", "Could not find taskmaster.db database file."),
           Line("expected", "   Expected locations:"),
           Line("expected", "   - " \o (IF env.set THEN PathStr(env.val) ELSE "LOCALAPPDATA")
                                   \o "/TaskMaster/taskmaster.db"),
           Line("expected", "   - ./taskmaster.db")>>
    /\ pc' = "done"
    /\ phases' = Append(phases, "DONE")
    /\ UNCHANGED <<env, fs, db, fs0, db0, db_path, conn, statements, exc>>

\* examine_database, up to conn.cursor(): sqlite3.connect creates the file
\* when there is none and cannot open a directory
Connect ==
    /\ pc = "located"
    /\ out' = out \o <<Line("examining", "Examining database: " \o PathStr(db_path)),
                       Line("rule", "=")>>
    /\ IF fs[db_path] = "dir"
       THEN /\ Raise("OperationalError")
            /\ UNCHANGED <<conn, fs>>
       ELSE /\ conn' = "open"
            /\ fs' = IF fs[db_path] = "absent" THEN [fs EXCEPT ![db_path] = "valid"] ELSE fs
            /\ pc' = "schema"
            /\ UNCHANGED exc
    /\ UNCHANGED <<env, db, fs0, db0, db_path, statements, phases>>

\* what the schema walk prints and executes for the tables before the first
\* one whose PRAGMA fails, and for that one
SchemaLines(d) ==
    LET good == {n \in 0..Len(d) : \A i \in 1..n : IsIdentifier(d[i].name)}
        n == CHOOSE m \in good : \A k \in good : k <= m
        TableLines(t) ==
            <<Line("table", "  Table: " \o t.name)>>
            \o [c \in 1..Len(t.cols) |->
                  Line("column", "    - " \o t.cols[c][1] \o " (" \o t.cols[c][2] \o ")")]
        F[i \in 0..n] == IF i = 0 THEN <<>> ELSE F[i - 1] \o TableLines(d[i])
    IN [ok |-> n = Len(d),
        lines |-> F[n] \o (IF n < Len(d) THEN <<Line("table", "  Table: " \o d[n + 1].name)>>
                           ELSE <<>>),
        stmts |-> [i \in 1..Min(n + 1, Len(d)) |-> PragmaQuery(d[i].name)]]

\* examine_database, the schema section
Schema ==
    /\ pc = "schema"
    /\ IF fs[db_path] = "malformed"
       THEN /\ out' = Append(out, Line("schema_title", "DATABASE SCHEMA:"))
            /\ statements' = Append(statements, SchemaQuery)
            /\ db' = Effect(SchemaQuery, db)
            /\ Raise("DatabaseError")
            /\ UNCHANGED phases
       ELSE \E walk \in {SchemaLines(db)} :
            /\ out' = out \o <<Line("schema_title", "DATABASE SCHEMA:")>> \o walk.lines
            /\ statements' = statements \o <<SchemaQuery>> \o walk.stmts
            /\ db' = Effect(SchemaQuery, db)
            /\ IF walk.ok
               THEN /\ pc' = "projects"
                    /\ phases' = Append(phases, "SCHEMA_PRINTED")
                    /\ UNCHANGED exc
               ELSE /\ Raise("OperationalError")
                    /\ UNCHANGED phases
    /\ UNCHANGED <<env, fs, fs0, db0, db_path, conn>>

\* A faulty variant of Escapes with no "except sqlite3.OperationalError".
EscapesNoExcept(result, formatted) ==
    IF ~result.ok THEN "OperationalError"
    ELSE IF Completes(formatted) THEN "none" ELSE "TypeError"

\* the exception that leaves a listing section's try block: the
\* OperationalError of the query is caught, the TypeError of a row that
\* cannot be formatted is not
Escapes(result, formatted) ==
    IF Completes(formatted) THEN "none" ELSE "TypeError"

\* A faulty variant of Listing whose except clause prints nothing.
ListingSwallow(result, header, sep, formatted, none, error) ==
    IF ~result.ok THEN <<>>
    ELSE IF formatted = <<>> THEN <<none>>
    ELSE <<header, sep>> \o Printed(formatted)

\* A faulty variant of Listing that tests "projects is not None".
ListingNotNone(result, header, sep, formatted, none, error) ==
    IF ~result.ok THEN <<Line(error.kind, error.text \o result.msg)>>
    ELSE <<header, sep>> \o Printed(formatted)

\* what a listing section prints after its title, given the query's result
\* and the formatted rows
Listing(result, header, sep, formatted, none, error) ==
    IF ~result.ok THEN <<Line(error.kind, error.text \o result.msg)>>
    ELSE IF formatted = <<>> THEN <<none>>
    ELSE <<header, sep>> \o Printed(formatted)

\* examine_database, the Projects section
Projects ==
    /\ pc = "projects"
    /\ \E result \in {Select(db, "Projects", ProjectsProjection)} :
       \E formatted \in {[i \in 1..Len(result.rows) |-> FormatProject(result.rows[i])]} :
          /\ out' = out \o <<Line("projects_title", "PROJECTS:")>>
                    \o Listing(result, ProjectsHeader,
                               Line("projects_sep", "  ---|----------------------|-----------|------------|-------------"),
                               formatted,
                               Line("no_projects", "  No projects found."),
                               Line("projects_error", "  Error reading projects: "))
          /\ IF Escapes(result, formatted) = "none"
             THEN /\ pc' = "tasks"
                  /\ phases' = Append(phases, "PROJECTS_PRINTED")
                  /\ UNCHANGED exc
             ELSE /\ Raise(Escapes(result, formatted))
                  /\ UNCHANGED phases
    /\ statements' = Append(statements, ProjectsQuery)
    /\ db' = Effect(ProjectsQuery, db)
    /\ UNCHANGED <<env, fs, fs0, db0, db_path, conn>>

\* examine_database, the TaskSpecs section
TaskSpecs ==
    /\ pc = "tasks"
    /\ \E result \in {Select(db, "TaskSpecs", TaskSpecsProjection)} :
       \E tasks \in OrderBy(result.rows) :
       \E formatted \in {[i \in 1..Len(tasks) |-> FormatTask(tasks[i])]} :
          /\ out' = out \o <<Line("tasks_title", "TASK SPECS:")>>
                    \o Listing(result, TaskSpecsHeader,
                               Line("tasks_sep", "  ---|--------|-----|----------------------|---------|--------|----------"),
                               formatted,
                               Line("no_tasks", "  No task specs found."),
                               Line("tasks_error", "  Error reading tasks: "))
          /\ IF Escapes(result, formatted) = "none"
             THEN /\ pc' = "close"
                  /\ phases' = Append(phases, "TASKS_PRINTED")
                  /\ UNCHANGED exc
             ELSE /\ Raise(Escapes(result, formatted))
                  /\ UNCHANGED phases
    /\ statements' = Append(statements, TaskSpecsQuery)
    /\ db' = Effect(TaskSpecsQuery, db)
    /\ UNCHANGED <<env, fs, fs0, db0, db_path, conn>>

\* examine_database, conn.close()
Close ==
    /\ pc = "close"
    /\ conn' = "closed"
    /\ pc' = "footer"
    /\ UNCHANGED <<env, fs, db, fs0, db0, db_path, statements, out, exc, phases>>

\* main, after examine_database has returned
Footer ==
    /\ pc = "footer"
    /\ out' = out \o
         <<Line("footer", "Database examination complete!"),
           Line("advice", "If you see issues:"),
           Line("advice", "1. No projects: Create a project in TaskMaster first"),
           Line("advice", "2. Missing NextNumber column: Database migration may have failed"),
           Line("advice", "3. No task specs: Try saving a spec and check again")>>
    /\ pc' = "done"
    /\ phases' = Append(phases, "DONE")
    /\ UNCHANGED <<env, fs, db, fs0, db0, db_path, conn, statements, exc>>

Next ==
    \/ Locate
    \/ NotFound
    \/ Connect
    \/ Schema
    \/ Projects
    \/ TaskSpecs
    \/ Close
    \/ Footer

Spec == Init /\ [][Next]_vars

\* the interpreter runs the script to its end: a step that can be taken is taken
FairSpec == Spec /\ WF_vars(Next)

(***************************************************************************)
(* Vocabulary of the properties.                                           *)
(***************************************************************************)
HasLine(kind) == \E i \in 1..Len(out) : out[i].kind = kind

LinesOf(kind) == SelectSeq(out, LAMBDA l : l.kind = kind)

Terminated == pc \in {"done", "crashed"}

\* LOCALAPPDATA holds a non-empty value
AppDataNamed == env.set /\ env.val # <<>>

SectionKinds == {"examining", "schema_title", "table", "column", "projects_title",
                 "projects_header", "projects_sep", "project_row", "no_projects",
                 "projects_error", "tasks_title", "tasks_header", "tasks_sep", "task_row",
                 "no_tasks", "tasks_error", "footer", "advice"}

(***************************************************************************)
(* C1                                                                      *)
(***************************************************************************)
\* C1 as stated: once find_database has returned, its result is the
\* app-data file whenever LOCALAPPDATA is set and that file exists, else
\* ./taskmaster.db whenever that exists, and None exactly when neither
\* candidate exists.
C1_SetAndExistsReturned ==
    pc # "start" =>
        /\ (env.set /\ exists(fs0, AppDataCandidate(env)))
              => db_path = AppDataCandidate(env)
        /\ (~(env.set /\ exists(fs0, AppDataCandidate(env))) /\ exists(fs0, CwdCandidate))
              => db_path = CwdCandidate
        /\ db_path = None
              <=> (~(env.set /\ exists(fs0, AppDataCandidate(env)))
                   /\ ~exists(fs0, CwdCandidate))

\* C1 amended: once find_database has returned, its result is the app-data
\* file whenever LOCALAPPDATA is set to a non-empty value and that file
\* exists (even if ./taskmaster.db exists too), else ./taskmaster.db
\* whenever that exists, and None exactly when neither of the two exists;
\* an empty LOCALAPPDATA counts as unset.
C1_FindDatabasePriority ==
    pc # "start" =>
        /\ (AppDataNamed /\ exists(fs0, AppDataCandidate(env)))
              => db_path = AppDataCandidate(env)
        /\ (~(AppDataNamed /\ exists(fs0, AppDataCandidate(env))) /\ exists(fs0, CwdCandidate))
              => db_path = CwdCandidate
        /\ db_path = None
              <=> (~(AppDataNamed /\ exists(fs0, AppDataCandidate(env)))
                   /\ ~exists(fs0, CwdCandidate))

\* both candidates exist and the app-data one was returned
C1_Witness ==
    /\ pc = "located"
    /\ AppDataNamed
    /\ exists(fs0, AppDataCandidate(env))
    /\ exists(fs0, CwdCandidate)
    /\ db_path = AppDataCandidate(env)

(***************************************************************************)
(* C2                                                                      *)
(***************************************************************************)
\* no candidate location holds a file
NeitherExists ==
    /\ ~exists(fs0, CwdCandidate)
    /\ env.set => ~exists(fs0, AppDataCandidate(env))

\* C2: when the file exists in neither candidate location, the run opens
\* no connection, executes no statement, prints no line of an inspection
\* section nor the footer, never fails, and has printed the not-found
\* message when it ends.
C2_NotFoundQueriesNothing ==
    NeitherExists =>
        /\ conn = "none"
        /\ statements = <<>>
        /\ \A i \in 1..Len(out) : out[i].kind \notin SectionKinds
        /\ pc \in {"start", "not_found", "done"}
        /\ pc = "done" => /\ HasLine("not_found")
                          /\ db_path = None

\* a run that found nothing has ended
C2_Witness ==
    /\ NeitherExists
    /\ pc = "done"
    /\ HasLine("not_found")

(***************************************************************************)
(* C3                                                                      *)
(***************************************************************************)
\* C3 as stated: a run that has opened a connection and has ended, normally
\* or by an uncaught failure, has closed it.
C3_ClosedOnAllExitPaths ==
    (Terminated /\ conn # "none") => conn = "closed"

(***************************************************************************)
(* C4                                                                      *)
(***************************************************************************)
\* C4: at every point of every run the filesystem and the database are
\* what they were at the start, and every statement issued is a SELECT or
\* a PRAGMA table_info.
C4_NeverModifies ==
    /\ fs = fs0
    /\ db = db0
    /\ \A i \in 1..Len(statements) : statements[i].verb \in {"SELECT", "PRAGMA table_info"}

\* a run over a populated database has ended after its three sections
C4_Witness ==
    /\ pc = "done"
    /\ conn = "closed"
    /\ HasTable(db0, "Projects") /\ TableOf(db0, "Projects").rows # <<>>
    /\ HasTable(db0, "TaskSpecs") /\ TableOf(db0, "TaskSpecs").rows # <<>>
    /\ \E i \in 1..Len(statements) : statements[i] = TaskSpecsQuery

(***************************************************************************)
(* C5                                                                      *)
(***************************************************************************)
\* the query of a section fails: its table, or a column it projects, is missing
Unreadable(name, projection) ==
    \/ ~HasTable(db0, name)
    \/ \E i \in 1..Len(projection) : projection[i] \notin ColNames(TableOf(db0, name))

ProjectsErrorTexts == {"  Error reading projects: no such table: Projects",
                       "  Error reading projects: no such column: NextNumber"}

TasksErrorTexts == {"  Error reading tasks: no such table: TaskSpecs",
                    "  Error reading tasks: no such column: Status"}

EmptyValid ==
    /\ pc # "start"
    /\ db_path # None
    /\ fs0[db_path] = "valid"
    /\ db0 = <<>>

\* C6: over a valid database with no tables the run never fails, the
\* schema section prints no table or column entry, each listing section
\* prints its "Error reading ...: no such table" line and neither a header,
\* a row nor its "No ... found." line.
C6_EmptyDatabase ==
    EmptyValid =>
        /\ pc # "crashed" /\ exc = "none"
        /\ \A i \in 1..Len(out) :
              out[i].kind \notin {"table", "column", "projects_header", "projects_sep",
                                  "project_row", "no_projects", "tasks_header", "tasks_sep",
                                  "task_row", "no_tasks"}
        /\ HasLine("projects_title") =>
              LinesOf("projects_error")
                 = <<Line("projects_error", "  Error reading projects: no such table: Projects")>>
        /\ HasLine("tasks_title") =>
              LinesOf("tasks_error")
                 = <<Line("tasks_error", "  Error reading tasks: no such table: TaskSpecs")>>
        /\ pc = "done" => (HasLine("tasks_title") /\ HasLine("footer") /\ conn = "closed")

\* a run over a valid database with no tables has ended
C6_Witness ==
    /\ EmptyValid
    /\ pc = "done"
    /\ HasLine("projects_error")
    /\ HasLine("tasks_error")

(***************************************************************************)
(* C7                                                                      *)
(***************************************************************************)
RowsOf(name) == TableOf(db0, name).rows

\* every value Python formats with a width is an int or a str
ProjectFormattable(r) == \A c \in 1..4 : r[c].t # "null"

TaskFormattable(r) == (\A c \in 1..6 : r[c].t # "null") /\ r[7].t = "str"

\* the lines a section printed between its title and the next section
ProjectsOutcome ==
    SelectSeq(out, LAMBDA l : l.kind \in {"projects_error", "no_projects", "projects_header",
                                          "projects_sep", "project_row"})

TasksOutcome ==
    SelectSeq(out, LAMBDA l : l.kind \in {"tasks_error", "no_tasks", "tasks_header",
                                          "tasks_sep", "task_row"})

Kinds(lines) == [i \in 1..Len(lines) |-> lines[i].kind]

\* C7 as stated: a section that has run has printed the error line when its
\* query fails, the "No ... found." line when the table has no rows, and
\* header, separator and one data row per record when it has rows.
C7_ThreeOutcomes ==
    /\ HasLine("projects_title") =>
          IF Unreadable("Projects", ProjectsProjection)
          THEN Kinds(ProjectsOutcome) = <<"projects_error">>
          ELSE IF RowsOf("Projects") = <<>>
          THEN /\ Kinds(ProjectsOutcome) = <<"no_projects">>
               /\ pc # "tasks" => HasLine("tasks_title")
          ELSE Kinds(ProjectsOutcome)
                  = <<"projects_header", "projects_sep">>
                    \o [i \in 1..Len(RowsOf("Projects")) |-> "project_row"]
    /\ HasLine("tasks_title") =>
          IF Unreadable("TaskSpecs", TaskSpecsProjection)
          THEN Kinds(TasksOutcome) = <<"tasks_error">>
          ELSE IF RowsOf("TaskSpecs") = <<>>
          THEN Kinds(TasksOutcome) = <<"no_tasks">>
          ELSE Kinds(TasksOutcome)
                  = <<"tasks_header", "tasks_sep">>
                    \o [i \in 1..Len(RowsOf("TaskSpecs")) |-> "task_row"]

\* the outcome of a section over a table with rows: header, separator and a
\* data row per record when every row can be formatted; otherwise header,
\* separator, fewer data rows than records, and the run ended by a TypeError
RowsOutcome(outcome, header, sep, row, rows, formattable, after) ==
    IF formattable
    THEN /\ Kinds(outcome) = <<header, sep>> \o [i \in 1..Len(rows) |-> row]
         /\ pc \in after
    ELSE /\ \E n \in 0..(Len(rows) - 1) :
               Kinds(outcome) = <<header, sep>> \o [i \in 1..n |-> row]
         /\ pc = "crashed" /\ exc = "TypeError"

\* C7 amended: a section that has run has printed exactly the error line
\* when its query fails, exactly the "No ... found." line when the table
\* has no rows, and header, separator and one data row per record when it
\* has rows that can all be formatted; when a row holds a value that cannot
\* be formatted, header, separator and fewer rows than records are printed
\* and an uncaught TypeError ends the run.  After a Projects table with
\* zero rows the run proceeds to the TaskSpecs section.
C7_ThreeOutcomesOrTypeError ==
    /\ HasLine("projects_title") =>
          IF Unreadable("Projects", ProjectsProjection)
          THEN Kinds(ProjectsOutcome) = <<"projects_error">>
          ELSE IF RowsOf("Projects") = <<>>
          THEN /\ Kinds(ProjectsOutcome) = <<"no_projects">>
               /\ pc \in {"tasks", "close", "footer", "done", "crashed"}
               /\ pc # "tasks" => HasLine("tasks_title")
          ELSE RowsOutcome(ProjectsOutcome, "projects_header", "projects_sep", "project_row",
                           RowsOf("Projects"),
                           \A i \in 1..Len(RowsOf("Projects")) :
                              ProjectFormattable(RowsOf("Projects")[i]),
                           {"tasks", "close", "footer", "done", "crashed"})
    /\ HasLine("tasks_title") =>
          IF Unreadable("TaskSpecs", TaskSpecsProjection)
          THEN Kinds(TasksOutcome) = <<"tasks_error">>
          ELSE IF RowsOf("TaskSpecs") = <<>>
          THEN Kinds(TasksOutcome) = <<"no_tasks">>
          ELSE RowsOutcome(TasksOutcome, "tasks_header", "tasks_sep", "task_row",
                           RowsOf("TaskSpecs"),
                           \A i \in 1..Len(RowsOf("TaskSpecs")) :
                              TaskFormattable(RowsOf("TaskSpecs")[i]),
                           {"close", "footer", "done"})

\* an empty Projects table was reported and the TaskSpecs rows were listed
C7_Witness ==
    /\ pc = "done"
    /\ HasLine("no_projects")
    /\ Len(LinesOf("task_row")) = MaxTasks

(***************************************************************************)
(* C8                                                                      *)
(***************************************************************************)
FullRun == <<"NOT_STARTED", "LOCATED", "SCHEMA_PRINTED", "PROJECTS_PRINTED",
             "TASKS_PRINTED", "DONE">>

NotFoundRun == <<"NOT_STARTED", "NOT_FOUND", "DONE">>

IsPrefix(a, b) == Len(a) <= Len(b) /\ \A i \in 1..Len(a) : a[i] = b[i]

SectionTitles ==
    SelectSeq(out, LAMBDA l : l.kind \in {"schema_title", "projects_title", "tasks_title"})

\* C8 as stated: a run that has ended went through one of the two phase
\* sequences, both of which end in DONE.
C8_EveryRunReachesDone ==
    Terminated => phases \in {FullRun, NotFoundRun}

\* the phases passed so far, the path inspected and the sections printed
C8_Phases ==
    /\ IsPrefix(phases, FullRun) \/ IsPrefix(phases, NotFoundRun)
    /\ pc = "done" => phases \in {FullRun, NotFoundRun}
    /\ Len(phases) >= 2 =>
          (phases[2] = "NOT_FOUND" <=> (~(AppDataNamed /\ exists(fs0, AppDataCandidate(env)))
                                        /\ ~exists(fs0, CwdCandidate)))
    /\ pc = "crashed" =>
          /\ IsPrefix(phases, FullRun)
          /\ Len(phases) = 2 =>
                \/ exc = "OperationalError" /\ fs0[db_path] = "dir" /\ conn = "none"
                \/ exc = "DatabaseError" /\ fs0[db_path] = "malformed"
                \/ exc = "OperationalError" /\ HasTable(db0, "Order Items")
          /\ Len(phases) \in {3, 4} => exc = "TypeError"
          /\ Len(phases) \in 2..4
    /\ (conn # "none" \/ statements # <<>> \/ HasLine("examining")) =>
          /\ phases[2] = "LOCATED"
          /\ db_path # None
          /\ exists(fs0, db_path)
    /\ IsPrefix(Kinds(SectionTitles), <<"schema_title", "projects_title", "tasks_title">>)
    /\ (Len(phases) >= 3 /\ phases[2] = "LOCATED")
          => Len(SectionTitles) >= Min(Len(phases), 5) - 2
    /\ phases[Len(phases)] \in {"NOT_STARTED", "NOT_FOUND"} => SectionTitles = <<>>

\* C8 amended: every run that no uncaught failure ends follows one of
\* exactly the two phase sequences and reaches DONE; a run that an uncaught
\* failure ends (opening a directory, a file that is no database, a table
\* name that is no identifier, a row value that cannot be formatted) has
\* followed NOT_STARTED, LOCATED and no more than the next two phases of
\* the first sequence, in order, and never reaches DONE.  The Locator runs
\* before the Inspector, the Inspector runs only against the path the
\* Locator returned, the sections are emitted in the order schema,
\* Projects, TaskSpecs with none skipped or repeated, and every run ends.
C8_PhaseSequences ==
    /\ []C8_Phases
    /\ <>Terminated

\* a run that an uncaught failure ended in the TaskSpecs section
C8_Witness ==
    /\ pc = "crashed"
    /\ phases = <<"NOT_STARTED", "LOCATED", "SCHEMA_PRINTED", "PROJECTS_PRINTED">>
    /\ exc = "TypeError"

(***************************************************************************)
(* C9                                                                      *)
(***************************************************************************)
\* s[:n]
Take(s, n) == [i \in 1..Min(n, Len(s)) |-> s[i]]

\* the printed TaskSpecs rows are, in order, the first records of some
\* ordering of the stored records by (ProjectId, Number), each with the
\* first 10 characters of its Created value
TaskRowsAreSortedRecords ==
    LET stored == RowsOf("TaskSpecs")
        printed == LinesOf("task_row")
    IN \E f \in Perms(Len(stored)) :
          /\ \A i \in 1..(Len(stored) - 1) :
                \/ stored[f[i]][2].i < stored[f[i + 1]][2].i
                \/ /\ stored[f[i]][2].i = stored[f[i + 1]][2].i
                   /\ stored[f[i]][3].i <= stored[f[i + 1]][3].i
          /\ Len(printed) <= Len(stored)
          /\ \A i \in 1..Len(printed) :
                /\ printed[i].fields[1]
                      = Spaces(IdWidth - Len(Digits(stored[f[i]][1].i)))
                        \o Digits(stored[f[i]][1].i)
                /\ printed[i].fields[7] = Take(stored[f[i]][7].s, CreatedLen)

\* the printed Projects rows are, in table order, the first records, each
\* with its LastUpdated text in full
ProjectRowsShowLastUpdated ==
    LET stored == RowsOf("Projects")
        printed == LinesOf("project_row")
    IN /\ Len(printed) <= Len(stored)
       /\ \A i \in 1..Len(printed) : printed[i].fields[5] = stored[i][5].s

\* C9 as stated: a populated TaskSpecs listing holds one data row per
\* record, in (ProjectId, Number) order, each with the first 10 characters
\* of Created; the Projects listing prints LastUpdated in full.
C9_OneRowPerRecord ==
    /\ HasLine("tasks_header") =>
          /\ Len(LinesOf("task_row")) = Len(RowsOf("TaskSpecs"))
          /\ TaskRowsAreSortedRecords
    /\ HasLine("projects_header") => ProjectRowsShowLastUpdated

\* C9 amended: a populated TaskSpecs listing holds one data row per record
\* up to the first record, in (ProjectId, Number) order, that holds a value
\* that cannot be formatted (there an uncaught TypeError ends the run): one
\* row per record when every record can be formatted; the rows are in
\* (ProjectId ascending, Number ascending) order and each row's Created
\* column is the first 10 characters of the stored value (the whole value
\* when it is shorter); the Projects listing prints LastUpdated in full.
C9_SortedRowsCreatedCut ==
    /\ HasLine("tasks_header") =>
          /\ TaskRowsAreSortedRecords
          /\ (\A i \in 1..Len(RowsOf("TaskSpecs")) : TaskFormattable(RowsOf("TaskSpecs")[i]))
                => Len(LinesOf("task_row")) = Len(RowsOf("TaskSpecs"))
          /\ Len(LinesOf("task_row")) < Len(RowsOf("TaskSpecs"))
                => (pc = "crashed" /\ exc = "TypeError")
    /\ HasLine("projects_header") => ProjectRowsShowLastUpdated

\* records stored out of order were listed in order, one with a long and
\* one with a short Created value
C9_Witness ==
    /\ pc = "done"
    /\ Len(LinesOf("task_row")) = MaxTasks
    /\ Len(RowsOf("TaskSpecs")) = MaxTasks
    /\ RowsOf("TaskSpecs")[1][2].i > RowsOf("TaskSpecs")[MaxTasks][2].i
    /\ \E i \in 1..MaxTasks : Len(RowsOf("TaskSpecs")[i][7].s) > CreatedLen
    /\ \E i \in 1..MaxTasks : Len(RowsOf("TaskSpecs")[i][7].s) < CreatedLen
    /\ HasLine("project_row")

(***************************************************************************)
(* C10                                                                     *)
(***************************************************************************)
RECURSIVE SeparatorOffset(_, _)
\* the column of the k-th "|" of a table line: two leading spaces, then
\* the fields with " | " between them
SeparatorOffset(fields, k) ==
    IF k = 0 THEN 0
    ELSE SeparatorOffset(fields, k - 1) + Len(fields[k]) + 3

Aligned(row, header) ==
    /\ Len(row.fields) = Len(header.fields)
    /\ \A k \in 1..(Len(header.fields) - 1) :
          SeparatorOffset(row.fields, k) = SeparatorOffset(header.fields, k)

\* the text with spaces after it up to the width, in full when it is longer
PadRight(s, w) == s \o Spaces(w - Len(s))

====
